---- MODULE Spec2Model ----
(***************************************************************************)
(* Model of src/Code.py: the Streamlit maintenance dashboard.              *)
(*                                                                         *)
(* The script is rerun from its first line on every interaction.  Each     *)
(* run calls the memoized loader load_data('PDS - Hoja1.csv'), and, when   *)
(* the frame it returns is not empty, computes the date bounds, applies    *)
(* the sidebar filters and builds the compliance table.                    *)
(*                                                                         *)
(* Encoding of values                                                      *)
(*   - a CSV header is [lead, name, trail]: the text `name` with `lead`    *)
(*     spaces before it and `trail` spaces after it;                       *)
(*   - a date cell is the sequence of the numbers its text holds between   *)
(*     the "/" separators ("05/03/2024" is <<5, 3, 2024>>), an empty cell  *)
(*     is <<>>;                                                            *)
(*   - a work-type cell is the sequence of its characters, an empty cell   *)
(*     is <<>>;                                                            *)
(*   - every other cell is a string, an empty cell is "";                  *)
(*   - a Timestamp is <<year, month, day>>, NaT is <<>>;                   *)
(*   - pandas' missing value is NaN (<<>>) in the date and work-type       *)
(*     columns and NaNStr in the string columns.                           *)
(***************************************************************************)
EXTENDS Integers, Sequences, FiniteSets, TLC

VARIABLES
    file,                \* the CSV file at 'PDS - Hoja1.csv', or NoFile
    cache,               \* st.cache_data's entry for load_data('PDS - Hoja1.csv')
    read_input,          \* what the last execution of load_data's body read
    st_error,            \* the st.error message of that execution
    df,                  \* line 94: the frame the last run got from load_data
    page,                \* "none" before the first run, then "dashboard" or "waiting"
    min_date, max_date,  \* lines 101-102
    start_date, end_date,\* lines 103-104: the sidebar's date inputs
    df_by_date,          \* line 109: df_filtered right after the date filter
    df_filtered,         \* df_filtered after the geographic filters
    df_ratio,            \* lines 223-226
    monthly_compliance   \* lines 228-232

vars == <<file, cache, read_input, st_error, df, page, min_date, max_date,
          start_date, end_date, df_by_date, df_filtered, df_ratio,
          monthly_compliance>>

-----------------------------------------------------------------------------
(* Bounds of the model *)

\* the longest file has MaxRows data rows
MaxRows == 2
\* a work-type text is made of at most MaxFrags fragments
MaxFrags == 2

-----------------------------------------------------------------------------
(* Values *)

NaN == <<>>
NaT == <<>>
NaNStr == "NaN"
NoFile == [exists |-> FALSE]
NotCached == [cached |-> FALSE]

Range(s) == {s[i] : i \in 1..Len(s)}

Header(name) == [lead |-> 0, name |-> name, trail |-> 0]

\* line 25-28
columns_to_load ==
    <<"Fecha Planificada", "Fecha cierre", "CCAA", "Nombre Centro",
      "Desc. Equipo", "Tipo Trabajo", "Desc. Estado", "Contratista">>

\* the columns whose cells the model holds as sequences
SeqTyped == {"Fecha Planificada", "Fecha cierre", "Tipo Trabajo"}

-----------------------------------------------------------------------------
(* str.upper and the substring test of Python's `in` *)

LowerLetters ==
    <<"a","b","c","d","e","f","g","h","i","j","k","l","m",
      "n","o","p","q","r","s","t","u","v","w","x","y","z">>
UpperLetters ==
    <<"A","B","C","D","E","F","G","H","I","J","K","L","M",
      "N","O","P","Q","R","S","T","U","V","W","X","Y","Z">>

upper_char(c) ==
    IF \E i \in 1..Len(LowerLetters) : LowerLetters[i] = c
    THEN UpperLetters[CHOOSE i \in 1..Len(LowerLetters) : LowerLetters[i] = c]
    ELSE c

\* tipo.upper(), line 74
str_upper(s) == [i \in 1..Len(s) |-> upper_char(s[i])]

\* `sub in s` for two strings, lines 75-78
Contains(s, sub) ==
    \E i \in 1..(Len(s) - Len(sub) + 1) : SubSeq(s, i, i + Len(sub) - 1) = sub

\* str(tipo) of a value that is not a string, line 72: only the missing value
\* is not a string in a column read as 'category' from text
py_str(v) == IF v = NaN THEN <<"n", "a", "n">> ELSE v

clean_tipo_trabajo_sin_first(tipo) ==
    LET t == IF tipo = NaN THEN py_str(tipo) ELSE tipo
        tipo_upper == str_upper(t)
    IN  IF Contains(tipo_upper, <<"S","I","N">>) THEN "Siniestro"
        ELSE IF Contains(tipo_upper, <<"C","O","R">>) THEN "Correctivo"
        ELSE IF Contains(tipo_upper, <<"P","R","V">>) THEN "Preventivo"
        ELSE IF Contains(tipo_upper, <<"I","N","S">>) THEN "Inspeccion"
        ELSE "Otro"

clean_tipo_trabajo_with_mod(tipo) ==
    LET t == IF tipo = NaN THEN py_str(tipo) ELSE tipo
        tipo_upper == str_upper(t)
    IN  IF Contains(tipo_upper, <<"C","O","R">>) THEN "Correctivo"
        ELSE IF Contains(tipo_upper, <<"P","R","V">>) THEN "Preventivo"
        ELSE IF Contains(tipo_upper, <<"S","I","N">>) THEN "Siniestro"
        ELSE IF Contains(tipo_upper, <<"I","N","S">>) THEN "Inspeccion"
        ELSE IF Contains(tipo_upper, <<"M","O","D">>) THEN "Modificativo"
        ELSE "Otro"

\* lines 70-79
clean_tipo_trabajo(tipo) ==
    LET t == IF tipo = NaN THEN py_str(tipo) ELSE tipo
        tipo_upper == str_upper(t)
    IN  IF Contains(tipo_upper, <<"C","O","R">>) THEN "Correctivo"
        ELSE IF Contains(tipo_upper, <<"P","R","V">>) THEN "Preventivo"
        ELSE IF Contains(tipo_upper, <<"S","I","N">>) THEN "Siniestro"
        ELSE IF Contains(tipo_upper, <<"I","N","S">>) THEN "Inspeccion"
        ELSE "Otro"

\* line 81: Series.apply over a column of dtype 'category' maps the values
\* that are present and leaves a missing value missing (pandas applies the
\* function with na_action="ignore" to categorical data)
apply_clean_tipo_trabajo(v) ==
    IF v = NaN THEN NaNStr ELSE clean_tipo_trabajo(v)

-----------------------------------------------------------------------------
(* pd.to_datetime(column, format='%d/%m/%Y', errors='coerce') *)

IsLeap(y) == (y % 4 = 0 /\ y % 100 # 0) \/ y % 400 = 0

DaysInMonth(m, y) ==
    IF m = 2 THEN (IF IsLeap(y) THEN 29 ELSE 28)
    ELSE IF m \in {4, 6, 9, 11} THEN 30 ELSE 31

DateFormatMonthFirst == <<"m", "d", "Y">>

\* the directives of format='%d/%m/%Y', lines 60-61
DateFormat == <<"d", "m", "Y">>

\* the field of `text` that directive `dir` of `format` reads
Field(text, format, dir) ==
    text[CHOOSE i \in 1..Len(format) : format[i] = dir]

\* one value of the column: a Timestamp, or NaT where the text does not match
\* the format or names no calendar day (errors='coerce')
to_datetime(text, format) ==
    IF Len(text) # Len(format) THEN NaT
    ELSE LET d == Field(text, format, "d")
             m == Field(text, format, "m")
             y == Field(text, format, "Y")
         IN  IF m \in 1..12 /\ d >= 1 /\ d <= DaysInMonth(m, y)
             THEN <<y, m, d>>
             ELSE NaT

\* Timestamp comparison
DateLE(a, b) ==
    \/ a[1] < b[1]
    \/ a[1] = b[1] /\ a[2] < b[2]
    \/ a[1] = b[1] /\ a[2] = b[2] /\ a[3] <= b[3]

-----------------------------------------------------------------------------
(* pd.read_csv(file_path, usecols=columns_to_load, dtype=data_types) *)

\* pd.DataFrame(), lines 88 and 91
EmptyDataFrame == [columns |-> {}, rows |-> <<>>]

\* DataFrame.empty: no column or no row, lines 96, 119, 125, 141, 201
frame_empty(frame) == frame.columns = {} \/ Len(frame.rows) = 0

HeaderMatchesStripped(h, c) == h.name = c

\* usecols selects a column of the file by its exact header text
HeaderMatches(h, c) == h = Header(c)

NotFound_date_only(f) ==
    {c \in {"Fecha Planificada"} :
        \A i \in 1..Len(f.headers) : ~HeaderMatches(f.headers[i], c)}

\* the names of usecols that no header of the file matches: read_csv raises
\* ValueError("Usecols do not match columns, columns expected but not
\* found: [...]") when there is one
NotFound(f) ==
    {c \in Range(columns_to_load) :
        \A i \in 1..Len(f.headers) : ~HeaderMatches(f.headers[i], c)}

\* the positions of the file's columns that usecols keeps, in file order
UsedPositions(f) ==
    SelectSeq([i \in 1..Len(f.headers) |-> i],
              LAMBDA i : \E c \in Range(columns_to_load) :
                            HeaderMatches(f.headers[i], c))

\* an empty cell is read as the missing value
read_cell(name, cell) ==
    IF name \in SeqTyped
    THEN (IF cell = <<>> THEN NaN ELSE cell)
    ELSE (IF cell = "" THEN NaNStr ELSE cell)

\* line 42: the exception raised, or the frame read (columns in file order,
\* the default index 0, 1, 2, ...)
read_csv(f) ==
    IF ~f.exists THEN [exc |-> "FileNotFoundError", names |-> {}]
    ELSE IF NotFound(f) # {} THEN [exc |-> "ValueError", names |-> NotFound(f)]
    ELSE LET pos == UsedPositions(f)
         IN  [exc |-> "none",
              columns |-> [k \in 1..Len(pos) |-> f.headers[pos[k]]],
              rows |-> [r \in 1..Len(f.rows) |->
                          [idx |-> r - 1,
                           cells |-> [k \in 1..Len(pos) |->
                                        read_cell(f.headers[pos[k]].name,
                                                  f.rows[r][pos[k]])]]]]

-----------------------------------------------------------------------------
(* load_data, lines 16-91 *)

\* one name of df.columns.str.strip(), line 48
str_strip(h) == [lead |-> 0, name |-> h.name, trail |-> 0]

\* df.rename(columns={...}), lines 49-56, on one stripped column name
rename(h) ==
    IF h = Header("Nombre Centro") THEN "Centro"
    ELSE IF h = Header("Desc. Estado") THEN "Estado"
    ELSE IF h = Header("Desc. Equipo") THEN "Instalacion"
    ELSE IF h = Header("Tipo Trabajo") THEN "Tipo_Trabajo"
    ELSE IF h = Header("Fecha Planificada") THEN "Fecha_Planificada"
    ELSE IF h = Header("Fecha cierre") THEN "Fecha_Cierre"
    ELSE h.name

\* an except branch, lines 86-91: st.error shows a text that holds the
\* names `names`, no exception reaches the caller (raised is FALSE), which
\* gets pd.DataFrame()
except_result(kind, names) ==
    [value |-> EmptyDataFrame,
     error |-> [shown |-> TRUE, kind |-> kind, names |-> names, raised |-> FALSE]]

\* no except branch was taken
NoError == [shown |-> FALSE, kind |-> "none", names |-> {}, raised |-> FALSE]

\* lines 46-84 on the frame read_csv returned
prepare(csv) ==
    LET cols == [k \in 1..Len(csv.columns) |-> rename(str_strip(csv.columns[k]))]
        names == Range(cols)
        At(r, c) == r.cells[CHOOSE k \in 1..Len(cols) : cols[k] = c]
    IN  IF "Fecha_Planificada" \notin names
        THEN except_result("Exception", {"Fecha_Planificada"})
        ELSE IF "Fecha_Cierre" \notin names
        THEN except_result("Exception", {"Fecha_Cierre"})
        ELSE IF "Tipo_Trabajo" \notin names
        THEN except_result("Exception", {"Tipo_Trabajo"})
        ELSE
        LET converted == [i \in 1..Len(csv.rows) |->
                [c \in names \cup {"idx"} |->
                    IF c = "idx" THEN csv.rows[i].idx
                    ELSE IF c \in {"Fecha_Planificada", "Fecha_Cierre"}
                    THEN to_datetime(At(csv.rows[i], c), DateFormat)
                    ELSE At(csv.rows[i], c)]]
            \* line 64
            kept == SelectSeq(converted, LAMBDA r : r["Fecha_Planificada"] # NaT)
            derived == {"Año", "Mes", "Tipo_Trabajo_Agrupado"}
            final == [i \in 1..Len(kept) |->
                [c \in names \cup {"idx"} \cup derived |->
                    IF c = "Año" THEN kept[i]["Fecha_Planificada"][1]
                    ELSE IF c = "Mes" THEN kept[i]["Fecha_Planificada"][2]
                    ELSE IF c = "Tipo_Trabajo_Agrupado"
                    THEN apply_clean_tipo_trabajo(kept[i]["Tipo_Trabajo"])
                    ELSE kept[i][c]]]
        IN  [value |-> [columns |-> names \cup derived, rows |-> final],
             error |-> NoError]

\* the body of load_data on the file `f`
load_data(f) ==
    LET csv == read_csv(f)
    IN  IF csv.exc = "FileNotFoundError"
        THEN except_result("FileNotFoundError", {})
        ELSE IF csv.exc # "none"
        THEN except_result("Exception", csv.names)
        ELSE prepare(csv)

-----------------------------------------------------------------------------
(* The dashboard, lines 96-247 *)

Unset == [columns |-> {}, rows |-> <<>>]

PlannedDates(frame) ==
    {frame.rows[i]["Fecha_Planificada"] : i \in 1..Len(frame.rows)}

series_first(frame) == frame.rows[1]["Fecha_Planificada"]

\* df['Fecha_Planificada'].min().date(), line 101
series_min(frame) ==
    CHOOSE a \in PlannedDates(frame) : \A b \in PlannedDates(frame) : DateLE(a, b)

\* df['Fecha_Planificada'].max().date(), line 102
series_max(frame) ==
    CHOOSE a \in PlannedDates(frame) : \A b \in PlannedDates(frame) : DateLE(b, a)

\* line 109
date_filter(frame, s, e) ==
    [frame EXCEPT !.rows =
        SelectSeq(frame.rows,
                  LAMBDA r : /\ DateLE(s, r["Fecha_Planificada"])
                             /\ DateLE(r["Fecha_Planificada"], e))]

\* sorted(frame[col].dropna().unique().tolist()): the options of a
\* multiselect, lines 113, 120, 126
options(frame, col) ==
    {frame.rows[i][col] : i \in 1..Len(frame.rows)} \ {NaNStr}

\* `if selected: frame = frame[frame[col].isin(selected)]`, lines 116-117,
\* 122-123, 128-129
isin_filter(frame, col, selected) ==
    IF selected = {} THEN frame
    ELSE [frame EXCEPT !.rows = SelectSeq(frame.rows, LAMBDA r : r[col] \in selected)]

\* lines 223-226
ratio_rows(frame) ==
    LET both == SelectSeq(frame.rows,
                          LAMBDA r : /\ r["Fecha_Planificada"] # NaT
                                     /\ r["Fecha_Cierre"] # NaT)
    IN  [i \in 1..Len(both) |->
            [c \in DOMAIN both[i] \cup {"Mismo_Mes", "Mes_Creacion"} |->
                IF c = "Mismo_Mes"
                THEN both[i]["Fecha_Planificada"][2] = both[i]["Fecha_Cierre"][2]
                ELSE IF c = "Mes_Creacion"
                THEN <<both[i]["Fecha_Planificada"][1], both[i]["Fecha_Planificada"][2]>>
                ELSE both[i][c]]]

\* lines 228-232: one row per planning month; the ratio is the exact
\* quotient num/den, held as <<num, den>>
compliance(ratio) ==
    LET months == {ratio[i]["Mes_Creacion"] : i \in 1..Len(ratio)}
        count(p) == Cardinality({i \in 1..Len(ratio) : ratio[i]["Mes_Creacion"] = p})
        sum(p) == Cardinality({i \in 1..Len(ratio) :
                     ratio[i]["Mes_Creacion"] = p /\ ratio[i]["Mismo_Mes"]})
    IN  {[Mes_Creacion |-> p,
          Total_Abiertas |-> count(p),
          Cerradas_Mismo_Mes |-> sum(p),
          Ratio_Cumplimiento |-> <<sum(p) * 100, count(p)>>] : p \in months}

-----------------------------------------------------------------------------
(* Actions *)

\* line 94 under @st.cache_data (line 15): the entry is keyed by the
\* function and its argument, the path; the body runs only when there is no
\* entry, and what it returns, the empty frame of an except branch included,
\* becomes the entry
Loaded ==
    IF cache.cached THEN cache.value ELSE load_data(file).value

\* one run of the script with the sidebar inputs the user has chosen
RunScript ==
    /\ df' = Loaded
    /\ cache' = [cached |-> TRUE, value |-> df']
    /\ read_input' = IF cache.cached THEN read_input ELSE file
    /\ st_error' = IF cache.cached THEN st_error ELSE load_data(file).error
    /\ UNCHANGED file
    /\ IF ~frame_empty(df')
       THEN /\ page' = "dashboard"
            /\ min_date' = series_min(df')
            /\ max_date' = series_max(df')
            \* date_input keeps the choice within [min_value, max_value]; the
            \* choices taken are the planned dates of the frame, min_date and
            \* max_date (the defaults) among them
            /\ \E s, e \in PlannedDates(df') :
                 /\ start_date' = s
                 /\ end_date' = e
                 /\ df_by_date' = date_filter(df', s, e)
            /\ \E ccaa \in SUBSET options(df_by_date', "CCAA") :
               LET f1 == isin_filter(df_by_date', "CCAA", ccaa)
               IN  \E centros \in SUBSET (IF frame_empty(f1) THEN {}
                                          ELSE options(f1, "Centro")) :
                   LET f2 == isin_filter(f1, "Centro", centros)
                   IN  \E inst \in SUBSET (IF frame_empty(f2) THEN {}
                                           ELSE options(f2, "Instalacion")) :
                         df_filtered' = isin_filter(f2, "Instalacion", inst)
            /\ IF frame_empty(df_filtered')
               THEN df_ratio' = <<>> /\ monthly_compliance' = {}
               ELSE /\ df_ratio' = ratio_rows(df_filtered')
                    /\ monthly_compliance' = compliance(df_ratio')
       ELSE /\ page' = "waiting"
            /\ min_date' = NaT /\ max_date' = NaT
            /\ start_date' = NaT /\ end_date' = NaT
            /\ df_by_date' = Unset /\ df_filtered' = Unset
            /\ df_ratio' = <<>> /\ monthly_compliance' = {}

\* the export is written, or replaced, at the path
WriteFile(d) ==
    /\ file' = d
    /\ d # file
    /\ UNCHANGED <<cache, read_input, st_error, df, page, min_date, max_date,
                   start_date, end_date, df_by_date, df_filtered, df_ratio,
                   monthly_compliance>>

RemoveFile ==
    /\ file.exists
    /\ file' = NoFile
    /\ UNCHANGED <<cache, read_input, st_error, df, page, min_date, max_date,
                   start_date, end_date, df_by_date, df_filtered, df_ratio,
                   monthly_compliance>>

-----------------------------------------------------------------------------
(* The files the model is run on *)

RECURSIVE Concats(_, _)
\* the texts made of at most n fragments of F
Concats(F, n) ==
    IF n = 0 THEN {<<>>}
    ELSE Concats(F, n - 1) \cup {t \o f : t \in Concats(F, n - 1), f \in F}

\* the sequences of at most n elements of S
SeqsUpTo(S, n) == UNION {[1..k -> S] : k \in 0..n}

Fragments ==
    { <<"C","O","R">>, <<"c","o","r">>, <<"P","r","v">>, <<"S","I","N">>,
      <<"i","n","s">>, <<"M","O","D">>, <<"m","o","d">>, <<"H","1">>,
      <<"S">>, <<"C","O">>, <<"R">> }

TipoTexts == Concats(Fragments, MaxFrags)

\* "05/03/2024", "13/12/2024", "31/13/2024" and the empty cell
FechaPlanTexts == { <<5, 3, 2024>>, <<13, 12, 2024>>, <<31, 13, 2024>>, <<>> }

\* "28/03/2024", "20/03/2025", "30/02/2024" and the empty cell
FechaCierreTexts == { <<28, 3, 2024>>, <<20, 3, 2025>>, <<30, 2, 2024>>, <<>> }

CCAATexts == { "Madrid", "" }

H1COR02 == <<"H","1","C","O","R","0","2">>

\* one data row, its cells in the order of columns_to_load
Row(fp, fc, ccaa, tipo) ==
    <<fp, fc, ccaa, "Centro A", "Caldera", tipo, "Cerrada", "ACME">>

ExactHeaders == [i \in 1..Len(columns_to_load) |-> Header(columns_to_load[i])]

Csv(headers, rows) == [exists |-> TRUE, headers |-> headers, rows |-> rows]

\* the expected headers over up to MaxRows rows of every date combination
RowFiles ==
    {Csv(ExactHeaders, rows) :
        rows \in SeqsUpTo({Row(fp, fc, ccaa, H1COR02) :
                              fp \in FechaPlanTexts,
                              fc \in FechaCierreTexts,
                              ccaa \in CCAATexts}, MaxRows)}

\* the expected headers over one row of every work-type text
TipoFiles ==
    {Csv(ExactHeaders, <<Row(<<5, 3, 2024>>, <<>>, "Madrid", t)>>) :
        t \in TipoTexts}

LowerName(c) ==
    CASE c = "Fecha Planificada" -> "fecha planificada"
      [] c = "Fecha cierre" -> "fecha cierre"
      [] c = "CCAA" -> "ccaa"
      [] c = "Nombre Centro" -> "nombre centro"
      [] c = "Desc. Equipo" -> "desc. equipo"
      [] c = "Tipo Trabajo" -> "tipo trabajo"
      [] c = "Desc. Estado" -> "desc. estado"
      [] c = "Contratista" -> "contratista"

\* a header of another source system, which the loader does not know
AliasName(c) ==
    CASE c = "Fecha Planificada" -> "Planned Date"
      [] c = "Fecha cierre" -> "Close Date"
      [] c = "CCAA" -> "Region"
      [] c = "Nombre Centro" -> "Centro"
      [] c = "Desc. Equipo" -> "Equipo"
      [] c = "Tipo Trabajo" -> "Work Type"
      [] c = "Desc. Estado" -> "Estado"
      [] c = "Contratista" -> "Contractor"

\* the ways one header of a file differs from the expected one: surrounded
\* by spaces, in lower case, or another name
HeaderVariants(c) ==
    { [lead |-> 1, name |-> c, trail |-> 1],
      Header(LowerName(c)),
      Header(AliasName(c)) }

WithExtraColumn(f) ==
    Csv(Append(f.headers, Header("Costes")),
        [r \in 1..Len(f.rows) |-> Append(f.rows[r], "150,5")])

WithoutLastColumn(f) ==
    Csv(SubSeq(f.headers, 1, Len(f.headers) - 1),
        [r \in 1..Len(f.rows) |-> SubSeq(f.rows[r], 1, Len(f.rows[r]) - 1)])

\* files of at most one row whose headers differ from the expected ones in
\* one column, or that have one column more or one column less
HeaderFiles ==
    LET base == {Csv(ExactHeaders, rows) :
                    rows \in SeqsUpTo({Row(fp, <<28, 3, 2024>>, "Madrid", H1COR02) :
                                          fp \in FechaPlanTexts}, 1)}
    IN  UNION {
          UNION {{[f EXCEPT !.headers[i] = h] : h \in HeaderVariants(f.headers[i].name)} :
                    i \in 1..Len(columns_to_load)}
          \cup {WithExtraColumn(f), WithoutLastColumn(f)} : f \in base}

LoadFiles == RowFiles \cup TipoFiles \cup HeaderFiles

\* the versions of the file over the life of a session
SessionFiles ==
    LET rows == SeqsUpTo({Row(fp, <<28, 3, 2024>>, "Madrid", H1COR02) :
                             fp \in {<<5, 3, 2024>>, <<13, 12, 2024>>}}, MaxRows)
    IN  {Csv(ExactHeaders, r) : r \in rows}
        \cup {Csv([ExactHeaders EXCEPT ![1] = Header("Planned Date")], r) : r \in rows}

-----------------------------------------------------------------------------
(* Specifications *)

NeverRun ==
    /\ cache = NotCached
    /\ read_input = NoFile
    /\ st_error = NoError
    /\ df = Unset
    /\ page = "none"
    /\ min_date = NaT /\ max_date = NaT
    /\ start_date = NaT /\ end_date = NaT
    /\ df_by_date = Unset /\ df_filtered = Unset
    /\ df_ratio = <<>> /\ monthly_compliance = {}

\* a session: the file is written, replaced and removed between the runs
Init == file = NoFile /\ NeverRun

Next ==
    \/ \E d \in SessionFiles : WriteFile(d)
    \/ RemoveFile
    \/ RunScript

Spec == Init /\ [][Next]_vars

\* the runs of the script over one file that does not change
InitLoad == file \in LoadFiles \cup {NoFile} /\ NeverRun

NextLoad == RunScript

SpecLoad == InitLoad /\ [][NextLoad]_vars

-----------------------------------------------------------------------------
(* What the claims speak of *)

\* the body of load_data has run: cache.value is what it made of read_input
BodyRan == cache.cached

Loads == BodyRan /\ read_input.exists

\* the eight columns the loader expects
ExpectedColumns ==
    {"Fecha Planificada", "Fecha cierre", "CCAA", "Nombre Centro",
     "Desc. Equipo", "Tipo Trabajo", "Desc. Estado", "Contratista"}

HasColumn(f, c) == \E i \in 1..Len(f.headers) : f.headers[i] = Header(c)

HasAllColumns(f) == \A c \in ExpectedColumns : HasColumn(f, c)

\* the cell of row r of the file under the header exactly named c
CellOf(f, r, c) ==
    f.rows[r][CHOOSE i \in 1..Len(f.headers) : f.headers[i] = Header(c)]

\* the text is a day-first dd/mm/YYYY date of the calendar
IsDayFirstDate(text) ==
    /\ Len(text) = 3
    /\ text[2] \in 1..12
    /\ text[1] \in 1..DaysInMonth(text[2], text[3])

\* the index labels 0, 1, ... of the rows of the file whose planned date
\* parses, in file order
ParseableRows(f) ==
    SelectSeq([r \in 1..Len(f.rows) |-> r - 1],
              LAMBDA k : IsDayFirstDate(CellOf(f, k + 1, "Fecha Planificada")))

\* letter a is letter b (an upper-case one) in either case
SameLetter(a, b) ==
    a = b \/ \E j \in 1..Len(UpperLetters) : UpperLetters[j] = b /\ LowerLetters[j] = a

\* the text holds the three letters of pat, in any letter case
HasCI(t, pat) ==
    \E i \in 1..(Len(t) - 2) : \A k \in 1..3 : SameLetter(t[i + k - 1], pat[k])

COR == <<"C", "O", "R">>
PRV == <<"P", "R", "V">>
SIN == <<"S", "I", "N">>
INS == <<"I", "N", "S">>
MOD == <<"M", "O", "D">>

LoadedRows == cache.value.rows

\* the loaded rows whose work type is a text
TextRows == {i \in 1..Len(LoadedRows) : LoadedRows[i]["Tipo_Trabajo"] # NaN}

Tipo(i) == LoadedRows[i]["Tipo_Trabajo"]
Agrupado(i) == LoadedRows[i]["Tipo_Trabajo_Agrupado"]

-----------------------------------------------------------------------------
(* Claims *)

\* C1: every row load_data returns has a category that is not null and is
\* one of Correctivo, Preventivo, Modificativo, Inspeccion, Siniestro, Otros,
\* also where the 'Tipo Trabajo' cell is empty.
C1_CategoriaInEnumeration ==
    BodyRan =>
        \A i \in 1..Len(LoadedRows) :
            /\ Agrupado(i) # NaNStr
            /\ Agrupado(i) \in {"Correctivo", "Preventivo", "Modificativo",
                                "Inspeccion", "Siniestro", "Otros"}

\* C2: the rules COR, PRV, SIN, INS are tried in this order on the text with
\* its letter case ignored, and the first that matches gives the category.
C2_FirstRuleWins ==
    BodyRan =>
        \A i \in TextRows :
            /\ HasCI(Tipo(i), COR) => Agrupado(i) = "Correctivo"
            /\ ~HasCI(Tipo(i), COR) /\ HasCI(Tipo(i), PRV)
                  => Agrupado(i) = "Preventivo"
            /\ ~HasCI(Tipo(i), COR) /\ ~HasCI(Tipo(i), PRV) /\ HasCI(Tipo(i), SIN)
                  => Agrupado(i) = "Siniestro"
            /\ ~HasCI(Tipo(i), COR) /\ ~HasCI(Tipo(i), PRV) /\ ~HasCI(Tipo(i), SIN)
                  /\ HasCI(Tipo(i), INS)
                  => Agrupado(i) = "Inspeccion"

\* a text with "cor" in lower case and "SIN" was loaded as Correctivo
C2_Witness ==
    /\ BodyRan
    /\ \E i \in TextRows :
        /\ HasCI(Tipo(i), COR) /\ ~Contains(Tipo(i), COR)
        /\ HasCI(Tipo(i), SIN)
        /\ Agrupado(i) = "Correctivo"

C4_ExactlyTheParseableRows ==
    Loads /\ HasAllColumns(read_input) =>
        LET keep == ParseableRows(read_input)
        IN  /\ Len(LoadedRows) = Len(keep)
            /\ \A i \in 1..Len(keep) :
                 LET text == CellOf(read_input, keep[i] + 1, "Fecha Planificada")
                 IN  /\ LoadedRows[i]["idx"] = keep[i]
                     /\ LoadedRows[i]["Fecha_Planificada"]
                           = <<text[3], text[2], text[1]>>
            /\ Len(LoadedRows) =
                 Len(read_input.rows)
                 - Cardinality({r \in 1..Len(read_input.rows) :
                      ~IsDayFirstDate(CellOf(read_input, r, "Fecha Planificada"))})

\* a file whose first row has the planned date "31/13/2024" and whose
\* second row has a good planned date and the close date "30/02/2024" was
\* loaded as the second row alone
C4_Witness ==
    /\ Loads /\ HasAllColumns(read_input)
    /\ Len(read_input.rows) = 2
    /\ CellOf(read_input, 1, "Fecha Planificada") = <<31, 13, 2024>>
    /\ CellOf(read_input, 2, "Fecha Planificada") = <<13, 12, 2024>>
    /\ CellOf(read_input, 2, "Fecha cierre") = <<30, 2, 2024>>
    /\ Len(LoadedRows) = 1
    /\ LoadedRows[1]["idx"] = 1
    /\ LoadedRows[1]["Fecha_Cierre"] = NaT


\* the names of the headers of the file
HeaderNames(f) == {f.headers[i].name : i \in 1..Len(f.headers)}

Resolved(h) ==
    IF \E c \in ExpectedColumns : h.name \in {c, LowerName(c)}
    THEN CHOOSE c \in ExpectedColumns : h.name \in {c, LowerName(c)}
    ELSE h.name

\* the file with its headers spelled exactly
ExactlySpelled(f) ==
    [f EXCEPT !.headers = [i \in 1..Len(f.headers) |-> Header(Resolved(f.headers[i]))]]

\* C7: a file whose headers differ from the expected names only by letter
\* case or surrounding spaces loads as the file with the headers spelled
\* exactly does.
C7_HeadersResolvedLeniently ==
    Loads /\ HasAllColumns(ExactlySpelled(read_input)) =>
        cache.value = load_data(ExactlySpelled(read_input)).value

\* C8: every call of load_data returns what the file now at the path loads
\* as, whatever was there at an earlier call.
C8_LoadReturnsCurrentFile ==
    [][RunScript => df' = load_data(file).value]_vars

\* C9: the date bounds are computed exactly when a row was loaded; then
\* min_date <= max_date, every planned date lies between them, and the date
\* filter with start = min_date and end = max_date keeps every row; with no
\* row, or a failed load, there is no bound and the page is the warning.
C9_DateBounds ==
    page # "none" =>
        /\ page = "dashboard" <=> Len(df.rows) > 0
        /\ page = "dashboard" =>
             /\ DateLE(min_date, max_date)
             /\ \A i \in 1..Len(df.rows) :
                  /\ DateLE(min_date, df.rows[i]["Fecha_Planificada"])
                  /\ DateLE(df.rows[i]["Fecha_Planificada"], max_date)
             /\ start_date = min_date /\ end_date = max_date
                  => df_by_date.rows = df.rows
        /\ page # "dashboard" =>
             /\ page = "waiting"
             /\ min_date = NaT /\ max_date = NaT
             /\ df_by_date = Unset

\* two rows with different planned dates, the later one first, are shown
\* under the default date inputs
C9_Witness ==
    /\ page = "dashboard"
    /\ Len(df.rows) = 2
    /\ df.rows[1]["Fecha_Planificada"] = max_date
    /\ df.rows[2]["Fecha_Planificada"] = min_date
    /\ min_date # max_date
    /\ start_date = min_date /\ end_date = max_date
    /\ df_by_date.rows = df.rows

\* C10: an order with both dates counts as closed in the same month exactly
\* when its close date is in the month and the year of its planned date; per
\* planning month Cerradas_Mismo_Mes <= Total_Abiertas and the ratio is
\* between 0 and 100.
C10_ClosedInPlanningMonth ==
    /\ \A i \in 1..Len(df_ratio) :
         df_ratio[i]["Mismo_Mes"] <=>
            /\ df_ratio[i]["Fecha_Cierre"][2] = df_ratio[i]["Fecha_Planificada"][2]
            /\ df_ratio[i]["Fecha_Cierre"][1] = df_ratio[i]["Fecha_Planificada"][1]
    /\ \A m \in monthly_compliance :
         /\ m.Cerradas_Mismo_Mes <= m.Total_Abiertas
         /\ 0 <= m.Ratio_Cumplimiento[1]
         /\ m.Ratio_Cumplimiento[1] <= 100 * m.Ratio_Cumplimiento[2]

====
